---- MODULE Spec2Model ----
(***************************************************************************)
(* Model of bfx_postonly: the POST_ONLY guard around the order submission  *)
(* capabilities of a Bitfinex client (client.py, utils.py, decorators.py). *)
(*                                                                         *)
(* Python values are tagged records, strings are sequences of characters,  *)
(* keyword-argument mappings are functions from field names to values (an  *)
(* absent key is a name outside the DOMAIN).  Numbers are integers: an     *)
(* amount is counted in thousandths, so 0.001 is PyInt(1).                 *)
(***************************************************************************)
EXTENDS Integers, Sequences, FiniteSets, TLC

VARIABLES cur, wss_submit, rest_submit, client, rebinds, flag_names, flag_result,
          flag_arg, flag_out, tasks, wire

\* what the attributes rest.auth.submit_order and wss.inputs.submit_order are
\* bound to, and the wrapping client
install == <<wss_submit, rest_submit, client, rebinds>>

\* the argument list and the outcome of a call of combine_flags; the
\* argument and the outcomes of the calls of the single-flag helpers
flagvars == <<flag_names, flag_result, flag_arg, flag_out>>

\* the coroutines of the guarded async submit that run side by side, and
\* the invocations the underlying capability has received from them
concvars == <<tasks, wire>>

vars == <<cur, install, flagvars, concvars>>

(***************************************************************************)
(* Python values                                                           *)
(***************************************************************************)
None == [t |-> "none"]

PyInt(n) == [t |-> "int", n |-> n]

PyStr(s) == [t |-> "str", s |-> s]

\* marks a keyword that the caller did not pass; never a value of a mapping
Absent == [t |-> "absent"]

IsInt(v) == v.t = "int"

IsStr(v) == v.t = "str"

\* bool(v) of Python for the three kinds of value
Truthy(v) ==
    CASE v.t = "none" -> FALSE
      [] v.t = "int"  -> v.n # 0
      [] v.t = "str"  -> v.s # <<>>

(***************************************************************************)
(* Strings                                                                 *)
(***************************************************************************)
S_LIMIT == <<"L", "I", "M", "I", "T">>

S_limit == <<"l", "i", "m", "i", "t">>

S_MARKET == <<"M", "A", "R", "K", "E", "T">>

S_STOP == <<"S", "T", "O", "P">>

S_EXCHANGE_LIMIT == <<"E", "X", "C", "H", "A", "N", "G", "E", " ", "L", "I", "M", "I", "T">>

S_STOP_LIMIT == <<"S", "T", "O", "P", " ", "L", "I", "M", "I", "T">>

S_EXCHANGE_STOP_LIMIT == <<"E", "X", "C", "H", "A", "N", "G", "E", " ", "S", "T", "O", "P", " ", "L", "I", "M", "I", "T">>

S_EXCHANGE_MARKET == <<"E", "X", "C", "H", "A", "N", "G", "E", " ", "M", "A", "R", "K", "E", "T">>

S_FOK == <<"F", "O", "K">>

S_IOC == <<"I", "O", "C">>

S_LIMI == <<"L", "I", "M", "I">>

S_tBTCUSD == <<"t", "B", "T", "C", "U", "S", "D">>

S_abc == <<"a", "b", "c">>

S_order == <<"o", "r", "d", "e", "r">>

S_Place_Order == <<"P", "l", "a", "c", "e", "_", "O", "r", "d", "e", "r">>

S_cancel_order == <<"c", "a", "n", "c", "e", "l", "_", "o", "r", "d", "e", "r">>

S_update_order == <<"u", "p", "d", "a", "t", "e", "_", "o", "r", "d", "e", "r">>

S_submit == <<"s", "u", "b", "m", "i", "t">>

S_submit_order == <<"s", "u", "b", "m", "i", "t", "_", "o", "r", "d", "e", "r">>

LowerAlphabet == <<"a", "b", "c", "d", "e", "f", "g", "h", "i", "j", "k", "l", "m", "n", "o", "p", "q", "r", "s", "t", "u", "v", "w", "x", "y", "z">>

UpperAlphabet == <<"A", "B", "C", "D", "E", "F", "G", "H", "I", "J", "K", "L", "M", "N", "O", "P", "Q", "R", "S", "T", "U", "V", "W", "X", "Y", "Z">>

Digits == <<"0", "1", "2", "3", "4", "5", "6", "7", "8", "9">>

UpperChar(c) ==
    IF \E i \in 1..Len(LowerAlphabet) : LowerAlphabet[i] = c
    THEN UpperAlphabet[CHOOSE i \in 1..Len(LowerAlphabet) : LowerAlphabet[i] = c]
    ELSE c

LowerChar(c) ==
    IF \E i \in 1..Len(UpperAlphabet) : UpperAlphabet[i] = c
    THEN LowerAlphabet[CHOOSE i \in 1..Len(UpperAlphabet) : UpperAlphabet[i] = c]
    ELSE c

\* str.lower()
Lower(s) == [i \in 1..Len(s) |-> LowerChar(s[i])]

\* str.upper()
Upper(s) == [i \in 1..Len(s) |-> UpperChar(s[i])]

\* the Python test  `w in s`  on two strings
Contains(s, w) ==
    \E i \in 0..(Len(s) - Len(w)) : SubSeq(s, i + 1, i + Len(w)) = w

(***************************************************************************)
(* Integers as bit masks (non-negative)                                    *)
(***************************************************************************)
RECURSIVE BitOr(_, _)
BitOr(a, b) ==
    IF a = 0 THEN b
    ELSE IF b = 0 THEN a
    ELSE IF a = -1 \/ b = -1 THEN -1
    ELSE (IF a % 2 = 1 \/ b % 2 = 1 THEN 1 ELSE 0) + 2 * BitOr(a \div 2, b \div 2)

RECURSIVE BitAnd(_, _)
BitAnd(a, b) ==
    IF a = 0 \/ b = 0 THEN 0
    ELSE IF a = -1 THEN b
    ELSE IF b = -1 THEN a
    ELSE (IF a % 2 = 1 /\ b % 2 = 1 THEN 1 ELSE 0) + 2 * BitAnd(a \div 2, b \div 2)

POST_ONLY_FLAG == 4096

HIDDEN == 64

REDUCE_ONLY == 1024

OCO == 16384

(***************************************************************************)
(* Outcomes of a function call: a value or a raised exception              *)
(***************************************************************************)
Ok(v) == [exc |-> "none", msg |-> "", val |-> v]

Raise(e, m) == [exc |-> e, msg |-> m, val |-> None]

Raised(r) == r.exc # "none"

\* dict.get(key, default)
Get(kw, key, default) == IF key \in DOMAIN kw THEN kw[key] ELSE default

\* kw[key] = v
Put(kw, key, v) == [f \in (DOMAIN kw) \cup {key} |-> IF f = key THEN v ELSE kw[f]]

(***************************************************************************)
(* utils.py                                                                *)
(***************************************************************************)
\* is_limit_order: a falsy argument is not a limit order, a truthy value
\* without .upper() raises AttributeError
is_limit_order_no_market_test(order_type) ==
    IF ~Truthy(order_type) THEN Ok(FALSE)
    ELSE IF ~IsStr(order_type) THEN Raise("AttributeError", "upper")
    ELSE Ok(Contains(Upper(order_type.s), S_LIMIT))

is_limit_order_any_string(order_type) ==
    IF ~Truthy(order_type) THEN Ok(FALSE)
    ELSE IF ~IsStr(order_type) THEN Raise("AttributeError", "upper")
    ELSE Ok(TRUE)

is_limit_order(order_type) ==
    IF ~Truthy(order_type) THEN Ok(FALSE)
    ELSE IF ~IsStr(order_type) THEN Raise("AttributeError", "upper")
    ELSE LET order_type_upper == Upper(order_type.s)
         IN  Ok(Contains(order_type_upper, S_LIMIT) /\ ~Contains(order_type_upper, S_MARKET))

has_post_only_flag_equals(flags) ==
    IF flags = None THEN Ok(FALSE)
    ELSE IF ~IsInt(flags) THEN Raise("TypeError", "unsupported operand type(s) for &")
    ELSE Ok(flags.n = POST_ONLY_FLAG)

has_post_only_flag(flags) ==
    IF flags = None THEN Ok(FALSE)
    ELSE IF ~IsInt(flags) THEN Raise("TypeError", "unsupported operand type(s) for &")
    ELSE Ok(BitAnd(flags.n, POST_ONLY_FLAG) # 0)

add_post_only_flag_identity(flags) ==
    IF flags = None THEN Ok(None)
    ELSE IF ~IsInt(flags) THEN Raise("TypeError", "unsupported operand type(s) for |")
    ELSE Ok(flags)

add_post_only_flag_overwrite(flags) ==
    IF flags = None THEN Ok(PyInt(POST_ONLY_FLAG))
    ELSE IF ~IsInt(flags) THEN Raise("TypeError", "unsupported operand type(s) for |")
    ELSE Ok(PyInt(POST_ONLY_FLAG))

add_post_only_flag_plus(flags) ==
    IF flags = None THEN Ok(PyInt(POST_ONLY_FLAG))
    ELSE IF ~IsInt(flags) THEN Raise("TypeError", "unsupported operand type(s) for |")
    ELSE Ok(PyInt(flags.n + POST_ONLY_FLAG))

add_post_only_flag(flags) ==
    IF flags = None THEN Ok(PyInt(POST_ONLY_FLAG))
    ELSE IF ~IsInt(flags) THEN Raise("TypeError", "unsupported operand type(s) for |")
    ELSE Ok(PyInt(BitOr(flags.n, POST_ONLY_FLAG)))

RECURSIVE ParseDigits(_, _)
ParseDigits(s, acc) ==
    IF s = <<>> THEN acc
    ELSE ParseDigits(Tail(s), 10 * acc + (CHOOSE d \in 0..9 : Digits[d + 1] = Head(s)))

\* float(v): numbers convert, None raises TypeError, a string converts when
\* it is a run of decimal digits and raises ValueError otherwise
PyFloat(v) ==
    CASE v.t = "int"  -> Ok(v.n)
      [] v.t = "none" -> Raise("TypeError", "float() argument must be a string or a number")
      [] v.t = "str"  ->
           IF v.s # <<>> /\ \A i \in 1..Len(v.s) : \E d \in 1..10 : Digits[d] = v.s[i]
           THEN Ok(ParseDigits(v.s, 0))
           ELSE Raise("ValueError", "could not convert string to float")

RequiredParams == <<"type", "symbol", "amount">>

\* the try/except around the amount: the ValueError raised for a zero amount
\* is caught by the except clause of the same try and replaced
ValidateAmount(params) ==
    LET amount == PyFloat(params["amount"])
        inner  == IF Raised(amount) THEN amount
                  ELSE IF amount.val = 0 THEN Raise("ValueError", "Order amount cannot be zero")
                  ELSE Ok(None)
    IN  IF inner.exc \in {"ValueError", "TypeError"}
        THEN Raise("ValueError", "Invalid amount")
        ELSE inner

ValidatePrice_NoSignCheck(params) ==
    LET price == PyFloat(params["price"])
    IN  IF price.exc \in {"ValueError", "TypeError"}
        THEN Raise("ValueError", "Invalid price")
        ELSE Ok(None)

ValidatePrice(params) ==
    LET price == PyFloat(params["price"])
        inner == IF Raised(price) THEN price
                 ELSE IF price.val <= 0 THEN Raise("ValueError", "Price must be positive")
                 ELSE Ok(None)
    IN  IF inner.exc \in {"ValueError", "TypeError"}
        THEN Raise("ValueError", "Invalid price")
        ELSE inner

validate_order_parameters_no_type_check(params) ==
    IF \E i \in 1..Len(RequiredParams) : RequiredParams[i] \notin DOMAIN params
    THEN Raise("ValueError", "Required parameter is missing")
    ELSE IF Raised(ValidateAmount(params)) THEN ValidateAmount(params)
    ELSE IF "price" \notin DOMAIN params
         THEN Raise("ValueError", "Price is required for limit orders")
    ELSE ValidatePrice(params)

validate_order_parameters(params) ==
    IF \E i \in 1..Len(RequiredParams) : RequiredParams[i] \notin DOMAIN params
    THEN Raise("ValueError", "Required parameter is missing")
    ELSE LET lim == is_limit_order(params["type"])
         IN  IF Raised(lim) THEN lim
             ELSE IF ~lim.val THEN Raise("ValueError", "Invalid order type for POST_ONLY")
             ELSE IF Raised(ValidateAmount(params)) THEN ValidateAmount(params)
             ELSE IF "price" \notin DOMAIN params
                  THEN Raise("ValueError", "Price is required for limit orders")
             ELSE ValidatePrice(params)

(***************************************************************************)
(* decorators.py                                                           *)
(***************************************************************************)
\* _validate_and_modify_order_params(**kwargs): the mapping it returns, or
\* the exception it raises
validate_and_modify_order_params_keep_flags(kwargs) ==
    LET ty == Get(kwargs, "type", PyStr(<<>>))
    IN  IF ~IsStr(ty) THEN Raise("AttributeError", "upper")
        ELSE LET order_type == Upper(ty.s)
             IN  IF ~Contains(order_type, S_LIMIT)
                 THEN Raise("InvalidOrderTypeError", "Only LIMIT orders are allowed")
                 ELSE IF Contains(order_type, S_MARKET)
                 THEN Raise("InvalidOrderTypeError", "Market orders are not allowed")
                 ELSE Ok(kwargs)

validate_and_modify_order_params_no_market_test(kwargs) ==
    LET ty == Get(kwargs, "type", PyStr(<<>>))
    IN  IF ~IsStr(ty) THEN Raise("AttributeError", "upper")
        ELSE LET order_type == Upper(ty.s)
                 flags      == Get(kwargs, "flags", PyInt(0))
             IN  IF ~Contains(order_type, S_LIMIT)
                 THEN Raise("InvalidOrderTypeError", "Only LIMIT orders are allowed")
                 ELSE IF IsInt(flags)
                 THEN IF BitAnd(flags.n, POST_ONLY_FLAG) = 0
                      THEN Ok(Put(kwargs, "flags", PyInt(BitOr(flags.n, POST_ONLY_FLAG))))
                      ELSE Ok(kwargs)
                 ELSE Ok(Put(kwargs, "flags", PyInt(POST_ONLY_FLAG)))

validate_and_modify_order_params(kwargs) ==
    LET ty == Get(kwargs, "type", PyStr(<<>>))
    IN  IF ~IsStr(ty) THEN Raise("AttributeError", "upper")
        ELSE LET order_type == Upper(ty.s)
                 flags      == Get(kwargs, "flags", PyInt(0))
             IN  IF ~Contains(order_type, S_LIMIT)
                 THEN Raise("InvalidOrderTypeError", "Only LIMIT orders are allowed")
                 ELSE IF Contains(order_type, S_MARKET)
                 THEN Raise("InvalidOrderTypeError", "Market orders are not allowed")
                 ELSE IF IsInt(flags)
                 THEN IF BitAnd(flags.n, POST_ONLY_FLAG) = 0
                      THEN Ok(Put(kwargs, "flags", PyInt(BitOr(flags.n, POST_ONLY_FLAG))))
                      ELSE Ok(kwargs)
                 ELSE Ok(Put(kwargs, "flags", PyInt(POST_ONLY_FLAG)))

\* post_only_enforcer: the keyword arguments that wrapper and async_wrapper
\* pass to func, which are checked when the name of func says it handles
\* orders
EnforcerKwargs_Always(name, kwargs) == validate_and_modify_order_params(kwargs)

EnforcerKwargs_SubmitOnly(name, kwargs) ==
    IF Contains(name, S_submit_order)
    THEN validate_and_modify_order_params(kwargs)
    ELSE Ok(kwargs)

EnforcerKwargs(name, kwargs) ==
    IF Contains(name, S_submit_order) \/ Contains(Lower(name), S_order)
    THEN validate_and_modify_order_params(kwargs)
    ELSE Ok(kwargs)

(***************************************************************************)
(* client.py                                                               *)
(***************************************************************************)
\* _wrapped_submit_order up to the call of the original method (the same
\* statements in the REST and in the WebSocket wrapper): the keyword
\* arguments it is about to forward, or the exception it raises
wrapped_submit_order_check(kwargs) ==
    LET v == validate_order_parameters(kwargs)
    IN  IF Raised(v) THEN v
        ELSE LET lim == is_limit_order(Get(kwargs, "type", PyStr(<<>>)))
             IN  IF Raised(lim) THEN lim
                 ELSE IF lim.val
                 THEN LET fl == add_post_only_flag(Get(kwargs, "flags", None))
                      IN  IF Raised(fl) THEN fl ELSE Ok(Put(kwargs, "flags", fl.val))
                 ELSE Raise("PostOnlyViolationError", "Only limit orders are allowed")

\* order_params of submit_limit_order / submit_limit_order_async: the four
\* named entries, overridden by the entries of **kwargs
BuildOrderParams_SwapAmountPrice(symbol, amount, price, order_type, extra) ==
    LET base == [type |-> order_type, symbol |-> symbol, amount |-> price, price |-> amount]
    IN  [f \in (DOMAIN base) \cup (DOMAIN extra) |->
            IF f \in DOMAIN extra THEN extra[f] ELSE base[f]]

BuildOrderParams(symbol, amount, price, order_type, extra) ==
    LET base == [type |-> order_type, symbol |-> symbol, amount |-> amount, price |-> price]
    IN  [f \in (DOMAIN base) \cup (DOMAIN extra) |->
            IF f \in DOMAIN extra THEN extra[f] ELSE base[f]]

(***************************************************************************)
(* Inputs                                                                  *)
(***************************************************************************)
\* longest order type, counted in words, that the callers pass
MaxTypeWords == 2

Words == {S_LIMIT, S_MARKET, S_STOP}

RECURSIVE JoinWords(_)
JoinWords(ws) ==
    IF Len(ws) = 0 THEN <<>>
    ELSE IF Len(ws) = 1 THEN ws[1]
    ELSE ws[1] \o <<" ">> \o JoinWords(Tail(ws))

TypeStrings ==
    {JoinWords(ws) : ws \in UNION {[1..k -> Words] : k \in 0..MaxTypeWords}}
        \cup {S_limit, S_EXCHANGE_LIMIT, S_EXCHANGE_MARKET, S_EXCHANGE_STOP_LIMIT,
              S_FOK, S_IOC, S_LIMI}

TypeValues == {Absent, None, PyInt(5)} \cup {PyStr(s) : s \in TypeStrings}

SymbolValues == {Absent, PyStr(S_tBTCUSD)}

AmountValues == {Absent, PyInt(1), PyInt(-1), PyInt(0), PyStr(S_abc)}

PriceValues == {Absent, PyInt(30000), PyInt(0), PyInt(-5), PyStr(S_abc)}

FlagValues ==
    {Absent, None, PyInt(0), PyInt(HIDDEN), PyInt(POST_ONLY_FLAG),
     PyInt(POST_ONLY_FLAG + HIDDEN + REDUCE_ONLY + OCO), PyStr(S_abc)}

AuxValues == {Absent, PyInt(29500)}

Fields == {"type", "symbol", "amount", "price", "flags", "price_aux_limit"}

\* the characters of the keyword names
KeyChars ==
    [type |-> <<"t", "y", "p", "e">>, symbol |-> <<"s", "y", "m", "b", "o", "l">>, amount |-> <<"a", "m", "o", "u", "n", "t">>, price |-> <<"p", "r", "i", "c", "e">>,
     flags |-> <<"f", "l", "a", "g", "s">>,
     price_aux_limit |-> <<"p", "r", "i", "c", "e", "_", "a", "u", "x", "_", "l", "i", "m", "i", "t">>]

\* the keyword mapping of a call: the keywords that were passed
MkKwargs(ty, sy, am, pr, fl, aux) ==
    LET full == [type |-> ty, symbol |-> sy, amount |-> am, price |-> pr,
                 flags |-> fl, price_aux_limit |-> aux]
    IN  [f \in {g \in Fields : full[g] # Absent} |-> full[f]]

EmptyKw == [f \in {} |-> None]

\* what the underlying capability answers: a result object or an error
TransportResults == {[t |-> "obj", id |-> 1], [t |-> "obj", id |-> 2]}

TransportError == [t |-> "error"]

Pending == [t |-> "pending"]

\* the arguments of a call besides its keyword mapping: those of the
\* convenience entry points, the name of a decorated function, the
\* positional arguments, and the number of guards between the attribute
\* that was called and the original capability
NoArgs ==
    [symbol |-> Absent, amount |-> Absent, price |-> Absent, order_type |-> Absent,
     extra |-> EmptyKw, func |-> <<>>, pos |-> <<>>, guards |-> 1]

Idle ==
    [entry |-> "none", pc |-> "idle", args |-> NoArgs, caller |-> EmptyKw, calls |-> <<>>,
     outcome |-> "none", exc |-> "none", msg |-> "", ret |-> None]

(***************************************************************************)
(* State machine                                                           *)
(***************************************************************************)
NotCombined == [exc |-> "none", msg |-> "not called", val |-> None]

\* no flag helper has been called: op names the helper, first and last are
\* the outcomes of its first and its latest call, n counts the calls
NotApplied == [op |-> "none", first |-> NotCombined, last |-> NotCombined, n |-> 0]

\* before PostOnlyClient(...): the client that BfxClient(...) will build has
\* rest.auth.submit_order or lacks it, and has wss.inputs.submit_order or
\* lacks it
Init ==
    /\ cur = Idle
    /\ rest_submit \in {"original", "missing"}
    /\ wss_submit \in {"original", "absent"}
    /\ client = [state |-> "unconstructed", exc |-> "none"]
    /\ rebinds = [rest |-> 0, wss |-> 0]
    /\ flag_names = <<>>
    /\ flag_result = NotCombined
    /\ flag_arg = None
    /\ flag_out = NotApplied
    /\ tasks = <<>>
    /\ wire = <<>>

\* PostOnlyRESTWrapper.__init__: reads rest_client.auth.submit_order and
\* binds the attribute to the wrapped method
RestWrapperInit(rest) ==
    IF rest = "missing"
    THEN [r |-> Raise("AttributeError", "submit_order"), submit |-> rest, rebinds |-> 0]
    ELSE [r |-> Ok(None), submit |-> "guarded", rebinds |-> 1]

\* PostOnlyWebSocketWrapper.__init__: binds inputs.submit_order to the
\* wrapped method when hasattr finds it
WssWrapperInit_NoRebind(wss) == [submit |-> wss, rebinds |-> 0]

WssWrapperInit(wss) ==
    IF wss = "absent"
    THEN [submit |-> wss, rebinds |-> 0]
    ELSE [submit |-> "guarded", rebinds |-> 1]

\* PostOnlyClient.__init__: BfxClient(...) inside try/except, then the REST
\* wrapper, then the WebSocket wrapper
Construct ==
    /\ client.state = "unconstructed"
    /\ \E bfx_raises \in BOOLEAN :
         IF bfx_raises
         THEN /\ client' = [state |-> "failed", exc |-> "ConfigurationError"]
              /\ UNCHANGED <<rest_submit, wss_submit, rebinds>>
         ELSE LET rw == RestWrapperInit(rest_submit)
                  ww == WssWrapperInit(wss_submit)
              IN  IF Raised(rw.r)
                  THEN /\ client' = [state |-> "failed", exc |-> rw.r.exc]
                       /\ rest_submit' = rw.submit
                       /\ rebinds' = [rebinds EXCEPT !.rest = @ + rw.rebinds]
                       /\ UNCHANGED wss_submit
                  ELSE /\ client' = [state |-> "active", exc |-> "none"]
                       /\ rest_submit' = rw.submit
                       /\ wss_submit' = ww.submit
                       /\ rebinds' = [rest |-> rebinds.rest + rw.rebinds,
                                      wss |-> rebinds.wss + ww.rebinds]
    /\ UNCHANGED <<cur, flagvars, concvars>>

\* the frame of a call that ended with an exception raised to the caller
RaisedFrame(entry, args, kwargs, calls, r) ==
    [entry |-> entry, pc |-> "done", args |-> args, caller |-> kwargs, calls |-> calls,
     outcome |-> "raised", exc |-> r.exc, msg |-> r.msg, ret |-> None]

\* the frame of a call that returned ret to the caller
ReturnedFrame(entry, args, kwargs, calls, ret) ==
    [entry |-> entry, pc |-> "done", args |-> args, caller |-> kwargs, calls |-> calls,
     outcome |-> "returned", exc |-> "none", msg |-> "", ret |-> ret]

\* PostOnlyRESTWrapper._wrapped_submit_order:  return self._original_submit_order(**kwargs)
RestReturn(resp) == resp

\* PostOnlyClient.submit_limit_order:  return self.rest.auth.submit_order(**order_params)
ConvSyncReturn_None(resp) == None

ConvSyncReturn(resp) == resp

\* PostOnlyWebSocketWrapper._wrapped_submit_order:  return await self._original_submit_order(**kwargs)
WssReturn_None(resp) == None

WssReturn(resp) == resp

\* PostOnlyClient.submit_limit_order_async:  await ... without return
ConvAsyncReturn(resp) == None

\* the transport invocations of the synchronous guard: none for a rejected
\* order, one with the checked keyword arguments otherwise
RestCalls_Retry(kwargs, resp) ==
    LET g == wrapped_submit_order_check(kwargs)
    IN  IF Raised(g) THEN <<>>
        ELSE IF resp = TransportError
        THEN <<[kwargs |-> g.val, resp |-> resp], [kwargs |-> g.val, resp |-> resp]>>
        ELSE <<[kwargs |-> g.val, resp |-> resp]>>

RestCalls(kwargs, resp) ==
    LET g == wrapped_submit_order_check(kwargs)
    IN  IF Raised(g) THEN <<>> ELSE <<[kwargs |-> g.val, resp |-> resp]>>

\* a call of the synchronous guard, given the transport's answer
RestFrame(entry, args, kwargs, resp) ==
    LET g     == wrapped_submit_order_check(kwargs)
        calls == RestCalls(kwargs, resp)
    IN  IF Raised(g) THEN RaisedFrame(entry, args, kwargs, calls, g)
        ELSE IF resp = TransportError
        THEN RaisedFrame(entry, args, kwargs, calls, Raise("TransportError", "transport"))
        ELSE ReturnedFrame(entry, args, kwargs, calls,
                           IF entry = "conv_sync" THEN ConvSyncReturn(RestReturn(resp))
                           ELSE RestReturn(resp))

\* the answers that matter for a call: none is drawn for a rejected order
Answers(r) ==
    IF Raised(r) THEN {Pending} ELSE TransportResults \cup {TransportError}

\* client.rest.auth.submit_order(**kwargs)
RestSubmit ==
    /\ cur.pc = "idle"
    /\ client.state = "active" /\ rest_submit = "guarded"
    /\ \E ty \in TypeValues, sy \in SymbolValues, am \in AmountValues, pr \in PriceValues,
          fl \in FlagValues, aux \in AuxValues :
         LET kwargs == MkKwargs(ty, sy, am, pr, fl, aux)
         IN  \E resp \in Answers(wrapped_submit_order_check(kwargs)) :
                cur' = RestFrame("sync", NoArgs, kwargs, resp)
    /\ UNCHANGED <<install, flagvars, concvars>>

\* the arguments of the convenience entry points: symbol, amount and price
\* are positional and always passed; **kwargs can carry type, flags and
\* passthrough fields (a second symbol, amount or price is a TypeError of
\* the call itself and never enters the body)
ConvSymbolValues == {PyStr(S_tBTCUSD), None}

ConvOrderTypes == {PyStr(S_EXCHANGE_LIMIT), PyStr(S_STOP_LIMIT), PyStr(S_EXCHANGE_MARKET), None}

ConvTypeOverrides == {Absent, PyStr(S_LIMIT), PyStr(S_EXCHANGE_MARKET)}

ConvArgs ==
    {[symbol |-> sy, amount |-> am, price |-> pr, order_type |-> ot,
      extra |-> MkKwargs(ty, Absent, Absent, Absent, fl, aux), func |-> <<>>, pos |-> <<>>,
      guards |-> 1] :
        sy \in ConvSymbolValues, am \in AmountValues \ {Absent}, pr \in PriceValues \ {Absent},
        ot \in ConvOrderTypes, ty \in ConvTypeOverrides, fl \in FlagValues, aux \in AuxValues}

OrderParamsOf(a) == BuildOrderParams(a.symbol, a.amount, a.price, a.order_type, a.extra)

\* client.submit_limit_order(symbol, amount, price, order_type, **kwargs)
ConvSubmit ==
    /\ cur.pc = "idle"
    /\ client.state = "active" /\ rest_submit = "guarded"
    /\ \E a \in ConvArgs :
         LET order_params == OrderParamsOf(a)
         IN  \E resp \in Answers(wrapped_submit_order_check(order_params)) :
                cur' = RestFrame("conv_sync", a, order_params, resp)
    /\ UNCHANGED <<install, flagvars, concvars>>

\* a coroutine object that has not run yet
CreatedFrame(entry, args, kwargs) ==
    [entry |-> entry, pc |-> "created", args |-> args, caller |-> kwargs, calls |-> <<>>,
     outcome |-> "none", exc |-> "none", msg |-> "", ret |-> None]

\* client.wss.inputs.submit_order(**kwargs): the call makes the coroutine
AsyncSubmit ==
    /\ cur.pc = "idle"
    /\ client.state = "active" /\ wss_submit = "guarded"
    /\ \E ty \in TypeValues, sy \in SymbolValues, am \in AmountValues, pr \in PriceValues,
          fl \in FlagValues, aux \in AuxValues :
         cur' = CreatedFrame("async", NoArgs, MkKwargs(ty, sy, am, pr, fl, aux))
    /\ UNCHANGED <<install, flagvars, concvars>>

\* client.submit_limit_order_async(symbol, amount, price, order_type, **kwargs)
ConvAsyncSubmit ==
    /\ cur.pc = "idle"
    /\ client.state = "active"
    /\ \E a \in ConvArgs : cur' = CreatedFrame("conv_async", a, OrderParamsOf(a))
    /\ UNCHANGED <<install, flagvars, concvars>>

\* the asynchronous guard from its first statement to its first suspension:
\* the exception it raises, or the invocation of the original coroutine
\* function it then awaits
WssStart_CallFirst(kwargs) ==
    LET g == wrapped_submit_order_check(kwargs)
    IN  [r |-> g, calls |-> <<[kwargs |-> IF Raised(g) THEN kwargs ELSE g.val, resp |-> Pending]>>]

WssStart(kwargs) ==
    LET g == wrapped_submit_order_check(kwargs)
    IN  [r |-> g,
         calls |-> IF Raised(g) THEN <<>> ELSE <<[kwargs |-> g.val, resp |-> Pending]>>]

\* submit_limit_order_async up to its first suspension: the attribute
\* lookup self.wss.inputs.submit_order raises AttributeError when the
\* underlying client has no such capability, and finds the guard otherwise
ConvAsyncStart_RestFallback(wss, order_params) ==
    IF wss = "absent"
    THEN [r |-> wrapped_submit_order_check(order_params),
          calls |-> RestCalls(order_params, Pending)]
    ELSE WssStart(order_params)

ConvAsyncStart(wss, order_params) ==
    IF wss = "absent"
    THEN [r |-> Raise("AttributeError", "submit_order"), calls |-> <<>>]
    ELSE WssStart(order_params)

\* the names of the decorated functions
OrderFuncNames == {S_submit_order}

\* post_only_enforcer.async_wrapper up to its first suspension
DecoratedAsyncStart(name, kwargs) ==
    LET r == EnforcerKwargs(name, kwargs)
    IN  [r |-> r,
         calls |-> IF Raised(r) THEN <<>> ELSE <<[kwargs |-> r.val, resp |-> Pending]>>]

\* post_only_enforcer.async_wrapper:  return await func(*args, **kwargs)
DecoratedAsyncReturn(resp) == resp

\* the keyword arguments passed to decorated coroutine functions
DecoratedAsyncKwargs ==
    {MkKwargs(ty, sy, am, pr, fl, aux) :
        ty \in TypeValues, sy \in SymbolValues, am \in {Absent, PyInt(1)},
        pr \in {Absent, PyInt(30000)}, fl \in FlagValues, aux \in AuxValues}

\* a call of a decorated coroutine function whose name contains 'order'
DecoratedAsyncCall ==
    /\ cur.pc = "idle"
    /\ client.state = "active"
    /\ \E kwargs \in DecoratedAsyncKwargs, name \in OrderFuncNames :
         cur' = CreatedFrame("decorated_async", [NoArgs EXCEPT !.func = name], kwargs)
    /\ UNCHANGED <<install, flagvars, concvars>>

\* the event loop runs the coroutine up to its first suspension
AsyncRun ==
    /\ cur.pc = "created"
    /\ LET st == CASE cur.entry = "conv_async" -> ConvAsyncStart(wss_submit, cur.caller)
                   [] cur.entry = "decorated_async" ->
                        DecoratedAsyncStart(cur.args.func, cur.caller)
                   [] OTHER -> WssStart(cur.caller)
       IN  IF Raised(st.r)
           THEN cur' = RaisedFrame(cur.entry, cur.args, cur.caller, st.calls, st.r)
           ELSE cur' = [cur EXCEPT !.pc = "awaiting", !.calls = st.calls]
    /\ UNCHANGED <<install, flagvars, concvars>>

\* the awaited original coroutine finishes with a result or an error
AsyncResume ==
    /\ cur.pc = "awaiting"
    /\ \E resp \in TransportResults \cup {TransportError} :
         LET calls == [cur.calls EXCEPT ![1].resp = resp]
         IN  IF resp = TransportError
             THEN cur' = RaisedFrame(cur.entry, cur.args, cur.caller, calls,
                                     Raise("TransportError", "transport"))
             ELSE cur' = ReturnedFrame(cur.entry, cur.args, cur.caller, calls,
                                       CASE cur.entry = "conv_async" ->
                                              ConvAsyncReturn(WssReturn(resp))
                                         [] cur.entry = "decorated_async" ->
                                              DecoratedAsyncReturn(resp)
                                         [] OTHER -> WssReturn(resp))
    /\ UNCHANGED <<install, flagvars, concvars>>

\* post_only_enforcer.wrapper around a synchronous function whose name
\* contains 'order', called with keyword arguments (by a program that also
\* holds an active client)
DecoratedOrderCall ==
    /\ cur.pc = "idle"
    /\ client.state = "active"
    /\ \E ty \in TypeValues, sy \in SymbolValues, am \in AmountValues, pr \in PriceValues,
          fl \in FlagValues, aux \in AuxValues, name \in OrderFuncNames :
         LET kwargs == MkKwargs(ty, sy, am, pr, fl, aux)
             r      == EnforcerKwargs(name, kwargs)
         IN  \E resp \in Answers(r) :
                IF Raised(r)
                THEN cur' = RaisedFrame("decorated", [NoArgs EXCEPT !.func = name], kwargs, <<>>, r)
                ELSE LET calls == <<[kwargs |-> r.val, resp |-> resp]>>
                     IN  IF resp = TransportError
                         THEN cur' = RaisedFrame("decorated", [NoArgs EXCEPT !.func = name], kwargs, calls,
                                                 Raise("TransportError", "transport"))
                         ELSE cur' = ReturnedFrame("decorated", [NoArgs EXCEPT !.func = name], kwargs, calls, resp)
    /\ UNCHANGED <<install, flagvars, concvars>>

\* order_methods of post_only_rest and post_only_websocket: the methods of
\* a decorated class that are replaced by post_only_enforcer(method)
OrderMethods == {S_submit_order, S_update_order, S_cancel_order}

\* names of other functions that get post_only_enforcer: a method 'submit'
\* (PostOnlyMethodWrapper.__getattr__ wraps names with 'submit'), a
\* function with 'Order' in capitals
NamedFuncs == (OrderMethods \ OrderFuncNames) \cup {S_submit, S_Place_Order}

\* the keyword arguments of these calls: order fields, an order id
NamedCallKwargs ==
    LET orders == {MkKwargs(ty, sy, am, pr, fl, Absent) :
                      ty \in {Absent, PyStr(S_EXCHANGE_LIMIT), PyStr(S_EXCHANGE_MARKET),
                               PyStr(S_limit)},
                      sy \in SymbolValues, am \in {Absent, PyInt(1)},
                      pr \in {Absent, PyInt(30000)}, fl \in FlagValues}
    IN  orders \cup {Put(k, "id", PyInt(7)) : k \in orders}

\* post_only_enforcer.wrapper around a synchronous function or method of
\* one of these names
NamedSyncCall ==
    /\ cur.pc = "idle"
    /\ client.state = "active"
    /\ \E kwargs \in NamedCallKwargs, name \in NamedFuncs :
         LET r    == EnforcerKwargs(name, kwargs)
             args == [NoArgs EXCEPT !.func = name]
         IN  \E resp \in Answers(r) :
                IF Raised(r)
                THEN cur' = RaisedFrame("decorated", args, kwargs, <<>>, r)
                ELSE LET calls == <<[kwargs |-> r.val, resp |-> resp]>>
                     IN  IF resp = TransportError
                         THEN cur' = RaisedFrame("decorated", args, kwargs, calls,
                                                 Raise("TransportError", "transport"))
                         ELSE cur' = ReturnedFrame("decorated", args, kwargs, calls, resp)
    /\ UNCHANGED <<install, flagvars, concvars>>

\* post_only_enforcer.async_wrapper around a coroutine function or method
\* of one of these names: the call makes the coroutine
NamedAsyncCall ==
    /\ cur.pc = "idle"
    /\ client.state = "active"
    /\ \E kwargs \in NamedCallKwargs, name \in NamedFuncs :
         cur' = CreatedFrame("decorated_async", [NoArgs EXCEPT !.func = name], kwargs)
    /\ UNCHANGED <<install, flagvars, concvars>>

\* PostOnlyMethodWrapper.__call__ on a callable: the keyword arguments are
\* checked when a positional argument or a keyword name contains 'order'
MethodWrapperKwargs(pos, kwargs) ==
    IF \/ \E i \in 1..Len(pos) : IsStr(pos[i]) /\ Contains(Lower(pos[i].s), S_order)
       \/ \E key \in DOMAIN kwargs : Contains(Lower(KeyChars[key]), S_order)
    THEN validate_and_modify_order_params(kwargs)
    ELSE Ok(kwargs)

\* the positional arguments passed to a wrapped callable
PositionalArgs == {<<>>, <<PyStr(S_submit_order)>>, <<PyStr(S_tBTCUSD)>>}

\* PostOnlyMethodWrapper(submit)(*args, **kwargs)
MethodWrapperCall ==
    /\ cur.pc = "idle"
    /\ client.state = "active"
    /\ \E kwargs \in DecoratedAsyncKwargs, pos \in PositionalArgs :
         LET r    == MethodWrapperKwargs(pos, kwargs)
             args == [NoArgs EXCEPT !.pos = pos]
         IN  \E resp \in Answers(r) :
                IF Raised(r)
                THEN cur' = RaisedFrame("method_wrapper", args, kwargs, <<>>, r)
                ELSE LET calls == <<[kwargs |-> r.val, resp |-> resp]>>
                     IN  IF resp = TransportError
                         THEN cur' = RaisedFrame("method_wrapper", args, kwargs, calls,
                                                 Raise("TransportError", "transport"))
                         ELSE cur' = ReturnedFrame("method_wrapper", args, kwargs, calls, resp)
    /\ UNCHANGED <<install, flagvars, concvars>>

\* the caller has the result or the exception; the order request is dropped
Discard ==
    /\ cur.pc = "done"
    /\ cur' = Idle
    /\ UNCHANGED <<install, flagvars, concvars>>

Next ==
    \/ Construct
    \/ RestSubmit
    \/ ConvSubmit
    \/ AsyncSubmit
    \/ ConvAsyncSubmit
    \/ AsyncRun
    \/ AsyncResume
    \/ DecoratedOrderCall
    \/ DecoratedAsyncCall
    \/ MethodWrapperCall
    \/ NamedSyncCall
    \/ NamedAsyncCall
    \/ Discard

Spec == Init /\ [][Next]_vars

(***************************************************************************)
(* utils.py: the flag registry and combine_flags                           *)
(***************************************************************************)
S_HIDDEN == <<"H", "I", "D", "D", "E", "N">>

S_CLOSE == <<"C", "L", "O", "S", "E">>

S_REDUCE_ONLY == <<"R", "E", "D", "U", "C", "E", "_", "O", "N", "L", "Y">>

S_POST_ONLY == <<"P", "O", "S", "T", "_", "O", "N", "L", "Y">>

S_OCO == <<"O", "C", "O">>

S_NO_VWR == <<"N", "O", "_", "V", "W", "R">>

S_post_only == <<"p", "o", "s", "t", "_", "o", "n", "l", "y">>

S_INVALID_FLAG == <<"I", "N", "V", "A", "L", "I", "D", "_", "F", "L", "A", "G">>

CLOSE == 512

NO_VWR == 262144

\* get_bitfinex_flags(): the dictionary of the known order flags
get_bitfinex_flags_overlap ==
    (S_HIDDEN :> HIDDEN) @@ (S_CLOSE :> CLOSE) @@ (S_REDUCE_ONLY :> REDUCE_ONLY) @@
    (S_POST_ONLY :> POST_ONLY_FLAG) @@ (S_OCO :> OCO + POST_ONLY_FLAG) @@ (S_NO_VWR :> NO_VWR)

get_bitfinex_flags ==
    (S_HIDDEN :> HIDDEN) @@ (S_CLOSE :> CLOSE) @@ (S_REDUCE_ONLY :> REDUCE_ONLY) @@
    (S_POST_ONLY :> POST_ONLY_FLAG) @@ (S_OCO :> OCO) @@ (S_NO_VWR :> NO_VWR)

\* the loop of combine_flags from the i-th name on, with the value combined
\* so far
RECURSIVE combine_flags_from_sum(_, _, _)
combine_flags_from_sum(flag_names_, i, combined) ==
    IF i > Len(flag_names_) THEN Ok(PyInt(combined))
    ELSE LET flag_name_upper == Upper(flag_names_[i])
         IN  IF flag_name_upper \notin DOMAIN get_bitfinex_flags
             THEN Raise("ValueError", "Unknown flag")
             ELSE combine_flags_from_sum(flag_names_, i + 1,
                                         combined + get_bitfinex_flags[flag_name_upper])

RECURSIVE combine_flags_from_skip(_, _, _)
combine_flags_from_skip(flag_names_, i, combined) ==
    IF i > Len(flag_names_) THEN Ok(PyInt(combined))
    ELSE LET flag_name_upper == Upper(flag_names_[i])
         IN  IF flag_name_upper \notin DOMAIN get_bitfinex_flags
             THEN combine_flags_from_skip(flag_names_, i + 1, combined)
             ELSE combine_flags_from_skip(flag_names_, i + 1,
                                          BitOr(combined, get_bitfinex_flags[flag_name_upper]))

RECURSIVE combine_flags_from(_, _, _)
combine_flags_from(flag_names_, i, combined) ==
    IF i > Len(flag_names_) THEN Ok(PyInt(combined))
    ELSE LET flag_name_upper == Upper(flag_names_[i])
         IN  IF flag_name_upper \notin DOMAIN get_bitfinex_flags
             THEN Raise("ValueError", "Unknown flag")
             ELSE combine_flags_from(flag_names_, i + 1,
                                     BitOr(combined, get_bitfinex_flags[flag_name_upper]))

\* combine_flags(*flag_names)
combine_flags(flag_names_) == combine_flags_from(flag_names_, 1, 0)

MaxFlagNames == 3

\* the names passed to combine_flags
FlagNameValues == {S_POST_ONLY, S_HIDDEN, S_post_only, S_OCO, S_INVALID_FLAG}

FlagNameTuples == UNION {[1..n -> FlagNameValues] : n \in 0..MaxFlagNames}

\* the registered names in the order of the dictionary
RegistryOrder == <<S_HIDDEN, S_CLOSE, S_REDUCE_ONLY, S_POST_ONLY, S_OCO, S_NO_VWR>>

\* every set of registered names, passed in the order of the dictionary
RegisteredSelections ==
    {SelectSeq(RegistryOrder, LAMBDA name : name \in S) :
        S \in SUBSET {RegistryOrder[i] : i \in 1..Len(RegistryOrder)}}

\* a program that only combines flags: no client is constructed
InitFlags ==
    /\ cur = Idle
    /\ rest_submit = "original"
    /\ wss_submit = "original"
    /\ client = [state |-> "unconstructed", exc |-> "none"]
    /\ rebinds = [rest |-> 0, wss |-> 0]
    /\ flag_names \in FlagNameTuples \cup RegisteredSelections
    /\ flag_result = NotCombined
    /\ flag_arg = None
    /\ flag_out = NotApplied
    /\ tasks = <<>>
    /\ wire = <<>>

\* flag_result = combine_flags(*flag_names)
CombineFlags ==
    /\ flag_result = NotCombined
    /\ flag_result' = combine_flags(flag_names)
    /\ UNCHANGED <<cur, install, flag_names, flag_arg, flag_out, concvars>>

NextFlags == CombineFlags

SpecFlags == InitFlags /\ [][NextFlags]_vars

(***************************************************************************)
(* utils.py: has_post_only_flag and add_post_only_flag on their own        *)
(***************************************************************************)
\* flags values have bits 0..MaxFlagBit-1 and a sign
MaxFlagBit == 13

FlagInts == (0 - 2^MaxFlagBit)..(2^MaxFlagBit - 1)

\* the argument of a helper call; Absent is add_post_only_flag()
FlagArgs == {None, Absent, PyStr(S_abc)} \cup {PyInt(n) : n \in FlagInts}

\* the parameter default  flags = None
DefaultNone(flags) == IF flags = Absent THEN None ELSE flags

\* a program that only calls the flag helpers on one flags value
InitBits ==
    /\ cur = Idle
    /\ rest_submit = "original"
    /\ wss_submit = "original"
    /\ client = [state |-> "unconstructed", exc |-> "none"]
    /\ rebinds = [rest |-> 0, wss |-> 0]
    /\ flag_names = <<>>
    /\ flag_result = NotCombined
    /\ flag_arg \in FlagArgs
    /\ flag_out = NotApplied
    /\ tasks = <<>>
    /\ wire = <<>>

\* f = add_post_only_flag(flags), then f = add_post_only_flag(f)
AddPostOnlyFlag ==
    /\ flag_out.op \in {"none", "add"}
    /\ flag_out.n < 2
    /\ ~Raised(flag_out.last)
    /\ LET r == add_post_only_flag(IF flag_out.n = 0 THEN DefaultNone(flag_arg)
                                   ELSE flag_out.last.val)
       IN  flag_out' = [op |-> "add", first |-> IF flag_out.n = 0 THEN r ELSE flag_out.first,
                        last |-> r, n |-> flag_out.n + 1]
    /\ UNCHANGED <<cur, install, flag_names, flag_result, flag_arg, concvars>>

\* has_post_only_flag(flags): flags is a required parameter
HasPostOnlyFlag ==
    /\ flag_out.op = "none"
    /\ flag_arg # Absent
    /\ LET r == has_post_only_flag(flag_arg)
       IN  flag_out' = [op |-> "has", first |-> r, last |-> r, n |-> 1]
    /\ UNCHANGED <<cur, install, flag_names, flag_result, flag_arg, concvars>>

NextBits == AddPostOnlyFlag \/ HasPostOnlyFlag

SpecBits == InitBits /\ [][NextBits]_vars

(***************************************************************************)
(* client.py: guarded async submits that run concurrently on one wrapper   *)
(***************************************************************************)
\* number of coroutines of _wrapped_submit_order alive at once
MaxTasks == 2

Tasks == 1..MaxTasks

\* the orders the concurrent callers submit
ConcKwargs ==
    {MkKwargs(ty, PyStr(S_tBTCUSD), PyInt(1), PyInt(30000), fl, Absent) :
        ty \in {PyStr(S_EXCHANGE_LIMIT), PyStr(S_EXCHANGE_MARKET)},
        fl \in {Absent, PyInt(HIDDEN), PyInt(POST_ONLY_FLAG + OCO)}}

\* a constructed client over a WebSocket client that has inputs.submit_order
InitConc ==
    /\ cur = Idle
    /\ rest_submit = "guarded"
    /\ wss_submit = "guarded"
    /\ client = [state |-> "active", exc |-> "none"]
    /\ rebinds = [rest |-> 1, wss |-> 1]
    /\ flag_names = <<>>
    /\ flag_result = NotCombined
    /\ flag_arg = None
    /\ flag_out = NotApplied
    /\ tasks = [i \in Tasks |-> Idle]
    /\ wire = <<>>

\* the kwargs of the i-th coroutine: **kwargs is a dict of its own call
TaskPayload_Shared(ts, i) ==
    LET live == {j \in DOMAIN ts : ts[j].pc # "idle"}
    IN  ts[CHOOSE j \in live : \A h \in live : j <= h].caller

TaskPayload(ts, i) == ts[i].caller

\* client.wss.inputs.submit_order(**kwargs) by the i-th caller
TaskSubmit(i) ==
    /\ tasks[i].pc = "idle"
    /\ \E kwargs \in ConcKwargs :
         tasks' = [tasks EXCEPT ![i] = CreatedFrame("async", NoArgs, kwargs)]
    /\ UNCHANGED <<cur, install, flagvars, wire>>

\* the event loop runs the i-th coroutine up to its first suspension: the
\* guard, then the invocation of the original coroutine function
TaskRun(i) ==
    /\ tasks[i].pc = "created"
    /\ LET t  == tasks[i]
           st == WssStart(TaskPayload(tasks, i))
       IN  IF Raised(st.r)
           THEN /\ tasks' = [tasks EXCEPT ![i] = RaisedFrame(t.entry, t.args, t.caller, st.calls, st.r)]
                /\ wire' = wire
           ELSE /\ tasks' = [tasks EXCEPT ![i] = [t EXCEPT !.pc = "awaiting", !.calls = st.calls]]
                /\ wire' = Append(wire, [task |-> i, kwargs |-> st.calls[1].kwargs])
    /\ UNCHANGED <<cur, install, flagvars>>

\* the original coroutine awaited by the i-th coroutine finishes
TaskResume(i) ==
    /\ tasks[i].pc = "awaiting"
    /\ \E resp \in TransportResults \cup {TransportError} :
         LET t     == tasks[i]
             calls == [t.calls EXCEPT ![1].resp = resp]
         IN  tasks' = [tasks EXCEPT ![i] =
                 IF resp = TransportError
                 THEN RaisedFrame(t.entry, t.args, t.caller, calls,
                                  Raise("TransportError", "transport"))
                 ELSE ReturnedFrame(t.entry, t.args, t.caller, calls, WssReturn(resp))]
    /\ UNCHANGED <<cur, install, flagvars, wire>>

NextConc ==
    \/ \E i \in Tasks : TaskSubmit(i)
    \/ \E i \in Tasks : TaskRun(i)
    \/ \E i \in Tasks : TaskResume(i)

SpecConc == InitConc /\ [][NextConc]_vars

(***************************************************************************)
(* client.py: wrappers constructed over an already wrapped client          *)
(***************************************************************************)
\* wrappers of one kind constructed over the same underlying client
MaxWraps == 2

\* the orders submitted through the stacked guards
RewrapKwargs ==
    {MkKwargs(ty, PyStr(S_tBTCUSD), am, PyInt(30000), fl, Absent) :
        ty \in {PyStr(S_EXCHANGE_LIMIT), PyStr(S_EXCHANGE_MARKET), PyStr(S_STOP_LIMIT)},
        am \in {PyInt(1), PyInt(0)},
        fl \in {Absent, PyInt(HIDDEN), PyInt(POST_ONLY_FLAG)}}

\* a constructed client: one wrapper of each kind is in place
InitRewrap ==
    /\ cur = Idle
    /\ rest_submit = "guarded"
    /\ wss_submit = "guarded"
    /\ client = [state |-> "active", exc |-> "none"]
    /\ rebinds = [rest |-> 1, wss |-> 1]
    /\ flag_names = <<>>
    /\ flag_result = NotCombined
    /\ flag_arg = None
    /\ flag_out = NotApplied
    /\ tasks = <<>>
    /\ wire = <<>>

\* PostOnlyRESTWrapper(client.rest): its _original_submit_order is the
\* attribute it finds, the wrapped method of the wrapper before it
RewrapRest ==
    /\ rebinds.rest < MaxWraps
    /\ LET rw == RestWrapperInit(rest_submit)
       IN  /\ rest_submit' = rw.submit
           /\ rebinds' = [rebinds EXCEPT !.rest = @ + rw.rebinds]
    /\ UNCHANGED <<cur, wss_submit, client, flagvars, concvars>>

\* PostOnlyWebSocketWrapper(client.wss)
RewrapWss ==
    /\ rebinds.wss < MaxWraps
    /\ LET ww == WssWrapperInit(wss_submit)
       IN  /\ wss_submit' = ww.submit
           /\ rebinds' = [rebinds EXCEPT !.wss = @ + ww.rebinds]
    /\ UNCHANGED <<cur, rest_submit, client, flagvars, concvars>>

\* a call that enters the outermost of n guards: each guard checks the
\* keyword arguments and calls its _original_submit_order, which is the
\* guard below it or, under the first wrapper, the original capability
RECURSIVE GuardChain_InvokePerGuard(_, _, _)
GuardChain_InvokePerGuard(n, kwargs, resp) ==
    IF n = 0 THEN [r |-> Ok(kwargs), calls |-> <<[kwargs |-> kwargs, resp |-> resp]>>]
    ELSE LET g == wrapped_submit_order_check(kwargs)
         IN  IF Raised(g) THEN [r |-> g, calls |-> <<>>]
             ELSE LET below == GuardChain_InvokePerGuard(n - 1, g.val, resp)
                  IN  [r |-> below.r,
                       calls |-> IF n > 1 THEN <<[kwargs |-> g.val, resp |-> resp]>> \o below.calls
                                 ELSE below.calls]

RECURSIVE GuardChain(_, _, _)
GuardChain(n, kwargs, resp) ==
    IF n = 0 THEN [r |-> Ok(kwargs), calls |-> <<[kwargs |-> kwargs, resp |-> resp]>>]
    ELSE LET g == wrapped_submit_order_check(kwargs)
         IN  IF Raised(g) THEN [r |-> g, calls |-> <<>>]
             ELSE GuardChain(n - 1, g.val, resp)

\* what the outermost guard returns: every guard returns the value of the
\* call it made
RECURSIVE ChainReturn(_, _, _)
ChainReturn(n, async, resp) ==
    IF n = 0 THEN resp
    ELSE IF async THEN WssReturn(ChainReturn(n - 1, async, resp))
    ELSE RestReturn(ChainReturn(n - 1, async, resp))

\* client.rest.auth.submit_order(**kwargs) on the re-wrapped client
RewrapRestSubmit ==
    /\ cur.pc = "idle"
    /\ \E kwargs \in RewrapKwargs :
         LET n    == rebinds.rest
             args == [NoArgs EXCEPT !.guards = n]
         IN  \E resp \in Answers(GuardChain(n, kwargs, Pending).r) :
                LET st == GuardChain(n, kwargs, resp)
                IN  IF Raised(st.r)
                    THEN cur' = RaisedFrame("rewrapped_sync", args, kwargs, st.calls, st.r)
                    ELSE IF resp = TransportError
                    THEN cur' = RaisedFrame("rewrapped_sync", args, kwargs, st.calls,
                                            Raise("TransportError", "transport"))
                    ELSE cur' = ReturnedFrame("rewrapped_sync", args, kwargs, st.calls,
                                              ChainReturn(n, FALSE, resp))
    /\ UNCHANGED <<install, flagvars, concvars>>

\* client.wss.inputs.submit_order(**kwargs) on the re-wrapped client: the
\* coroutine of the outermost guard
RewrapAsyncSubmit ==
    /\ cur.pc = "idle"
    /\ \E kwargs \in RewrapKwargs :
         cur' = CreatedFrame("rewrapped_async", [NoArgs EXCEPT !.guards = rebinds.wss], kwargs)
    /\ UNCHANGED <<install, flagvars, concvars>>

\* the coroutines of the guards run one into the other, without a
\* suspension, down to the await of the original coroutine
RewrapAsyncRun ==
    /\ cur.pc = "created" /\ cur.entry = "rewrapped_async"
    /\ LET st == GuardChain(cur.args.guards, cur.caller, Pending)
       IN  IF Raised(st.r)
           THEN cur' = RaisedFrame(cur.entry, cur.args, cur.caller, st.calls, st.r)
           ELSE cur' = [cur EXCEPT !.pc = "awaiting", !.calls = st.calls]
    /\ UNCHANGED <<install, flagvars, concvars>>

\* the original coroutine finishes; its result or error passes every guard
RewrapAsyncResume ==
    /\ cur.pc = "awaiting" /\ cur.entry = "rewrapped_async"
    /\ \E resp \in TransportResults \cup {TransportError} :
         LET calls == [cur.calls EXCEPT ![1].resp = resp]
         IN  IF resp = TransportError
             THEN cur' = RaisedFrame(cur.entry, cur.args, cur.caller, calls,
                                     Raise("TransportError", "transport"))
             ELSE cur' = ReturnedFrame(cur.entry, cur.args, cur.caller, calls,
                                       ChainReturn(cur.args.guards, TRUE, resp))
    /\ UNCHANGED <<install, flagvars, concvars>>

NextRewrap ==
    \/ RewrapRest
    \/ RewrapWss
    \/ RewrapRestSubmit
    \/ RewrapAsyncSubmit
    \/ RewrapAsyncRun
    \/ RewrapAsyncResume
    \/ Discard

SpecRewrap == InitRewrap /\ [][NextRewrap]_vars

(***************************************************************************)
(* Properties                                                              *)
(***************************************************************************)
ClientEntries == {"sync", "conv_sync", "async", "conv_async"}

GuardedEntries == {"sync", "async"}

AsyncEntries == {"async", "conv_async"}

\* bit 4096 is set in an integer flags value
HasPostOnlyBit(v) == IsInt(v) /\ (v.n \div POST_ONLY_FLAG) % 2 = 1

\* the upper-cased string contains the word
TypeContains(v, w) == IsStr(v) /\ Contains(Upper(v.s), w)

LimitClassified(v) == TypeContains(v, S_LIMIT) /\ ~TypeContains(v, S_MARKET)

\* an order that passes every structural check: limit type, symbol, a
\* non-zero amount and a positive price
ValidLimitOrder(k) ==
    /\ {"type", "symbol", "amount", "price"} \subseteq DOMAIN k
    /\ LimitClassified(k["type"])
    /\ IsInt(k["amount"]) /\ k["amount"].n # 0
    /\ IsInt(k["price"]) /\ k["price"].n > 0

LacksPostOnlyBit(k) ==
    \/ "flags" \notin DOMAIN k
    \/ IsInt(k["flags"]) /\ ~HasPostOnlyBit(k["flags"])

\* the test of post_only_enforcer on the name of the decorated function
NameSaysOrder(name) == Contains(name, S_submit_order) \/ Contains(Lower(name), S_order)

Answered == cur.calls # <<>> /\ cur.calls[1].resp \in TransportResults

\* C1: every payload that a guarded or convenience submit hands to the
\* underlying capability has a limit-classified type and flags with bit 4096
C1_TransportSeesOnlyPostOnlyLimit ==
    cur.entry \in ClientEntries =>
        \A i \in 1..Len(cur.calls) :
            LET k == cur.calls[i].kwargs
            IN  /\ "type" \in DOMAIN k /\ LimitClassified(k["type"])
                /\ "flags" \in DOMAIN k /\ HasPostOnlyBit(k["flags"])

C1_Witness ==
    /\ cur.entry = "conv_async" /\ cur.pc = "awaiting"
    /\ "type" \in DOMAIN cur.args.extra /\ "flags" \notin DOMAIN cur.args.extra
    /\ Len(cur.calls) = 1

\* C2: a valid limit order without bit 4096 submitted through the
\* synchronous guard is rejected with the missing-flag violation and the
\* transport is not invoked
C2_MissingFlagRejected ==
    (cur.entry \in {"sync", "conv_sync"} /\ cur.pc = "done"
        /\ ValidLimitOrder(cur.caller) /\ LacksPostOnlyBit(cur.caller))
    => (cur.outcome = "raised" /\ cur.exc = "PostOnlyViolationError" /\ cur.calls = <<>>)

\* C3: the mapping the guard passes to the underlying capability equals the
\* mapping the caller supplied
C3_ForwardedUnchanged ==
    (cur.entry \in GuardedEntries /\ cur.calls # <<>>)
    => cur.calls[1].kwargs = cur.caller

\* C4: a convenience submit with a symbol, a non-zero amount, a positive
\* price, the default type and no flags invokes the transport once with
\* type EXCHANGE LIMIT, the caller's symbol, amount and price and bit 4096;
\* the synchronous call returns the transport's result
C4_Applies ==
    /\ cur.entry \in {"conv_sync", "conv_async"}
    /\ cur.entry = "conv_async" => wss_submit = "guarded"
    /\ IsStr(cur.args.symbol)
    /\ IsInt(cur.args.amount) /\ cur.args.amount.n # 0
    /\ IsInt(cur.args.price) /\ cur.args.price.n > 0
    /\ cur.args.order_type = PyStr(S_EXCHANGE_LIMIT)
    /\ "flags" \notin DOMAIN cur.args.extra /\ "type" \notin DOMAIN cur.args.extra

C5_NotLimit(k) ==
    \/ "type" \notin DOMAIN k
    \/ ~TypeContains(k["type"], S_LIMIT)

C5_NonLimitNeverSent ==
    (cur.entry \in GuardedEntries /\ C5_NotLimit(cur.caller)) =>
        /\ cur.calls = <<>>
        /\ cur.pc # "awaiting"
        /\ cur.pc = "done" => cur.outcome = "raised"

C5_Witness ==
    /\ cur.entry = "async" /\ cur.pc = "done" /\ cur.outcome = "raised"
    /\ "type" \in DOMAIN cur.caller /\ cur.caller["type"] = PyStr(S_EXCHANGE_MARKET)
    /\ ValidLimitOrder([cur.caller EXCEPT !["type"] = PyStr(S_LIMIT)])
    /\ "flags" \in DOMAIN cur.caller /\ cur.caller["flags"] = PyInt(POST_ONLY_FLAG)

\* C6: a guarded submit of an order that has type, symbol and amount and a
\* type that is not limit-classified fails with PostOnlyViolationError
C6_TypedOrderTypeViolation ==
    (cur.entry \in GuardedEntries /\ cur.pc = "done"
        /\ {"type", "symbol", "amount"} \subseteq DOMAIN cur.caller
        /\ IsStr(cur.caller["type"]) /\ ~LimitClassified(cur.caller["type"]))
    => (cur.outcome = "raised" /\ cur.exc = "PostOnlyViolationError")

\* C7: a valid limit order whose flags contain bit 4096 is forwarded by the
\* synchronous guard once, with the caller's parameters, and the transport's
\* result is what the call returns
C7_Applies ==
    /\ cur.entry = "sync" /\ cur.pc = "done"
    /\ ValidLimitOrder(cur.caller)
    /\ "flags" \in DOMAIN cur.caller /\ HasPostOnlyBit(cur.caller["flags"])

C7_FlaggedOrderPassesThrough ==
    C7_Applies =>
        /\ Len(cur.calls) = 1
        /\ cur.calls[1].kwargs = cur.caller
        /\ Answered => (cur.outcome = "returned" /\ cur.ret = cur.calls[1].resp)

C7_Witness ==
    /\ C7_Applies /\ cur.outcome = "returned"
    /\ cur.caller["flags"] = PyInt(POST_ONLY_FLAG + HIDDEN + REDUCE_ONLY + OCO)

\* what a finished call shows of the classification of its order type
C8_Scope ==
    /\ cur.entry \in {"sync", "async", "decorated"} /\ cur.pc = "done"
    /\ "type" \in DOMAIN cur.caller /\ IsStr(cur.caller["type"])
    /\ cur.entry # "decorated" => {"symbol", "amount"} \subseteq DOMAIN cur.caller
    /\ cur.entry = "decorated" => NameSaysOrder(cur.args.func)

C8_RejectedAsNonLimit ==
    IF cur.entry = "decorated"
    THEN cur.exc = "InvalidOrderTypeError"
    ELSE cur.exc = "ValueError" /\ cur.msg = "Invalid order type for POST_ONLY"

\* C8 as stated: a type string is classified as limit exactly when its
\* upper-cased form contains LIMIT
C8_LimitIffContainsLIMIT ==
    C8_Scope => (~C8_RejectedAsNonLimit <=> TypeContains(cur.caller["type"], S_LIMIT))

\* C8 amended: a type string is classified as limit exactly when its
\* upper-cased form contains LIMIT and does not contain MARKET
C8_LimitIffLIMITAndNotMARKET ==
    C8_Scope =>
        (~C8_RejectedAsNonLimit <=>
            (TypeContains(cur.caller["type"], S_LIMIT) /\ ~TypeContains(cur.caller["type"], S_MARKET)))

C8_Witness ==
    /\ C8_Scope /\ cur.entry = "sync" /\ C8_RejectedAsNonLimit
    /\ TypeContains(cur.caller["type"], S_LIMIT) /\ TypeContains(cur.caller["type"], S_MARKET)

\* C9: an asynchronous submit that the guard rejects raises in the step
\* that starts the coroutine, with no call of the underlying capability
\* before or in that step
C9_RejectionBeforeSuspension ==
    [][(cur'.entry \in AsyncEntries /\ cur'.outcome = "raised" /\ cur'.exc # "TransportError")
          => (cur.pc = "created" /\ cur.calls = <<>> /\ cur'.calls = <<>>)]_vars

C9_Witness ==
    /\ cur.entry = "async" /\ cur.outcome = "raised" /\ cur.exc = "ValueError"
    /\ cur.calls = <<>>

\* C10: the asynchronous guard accepts a STOP LIMIT order with symbol,
\* amount, price, price_aux_limit and flags 4096, invokes the underlying
\* capability once with the same fields and resolves to its result
C10_Applies ==
    /\ cur.entry = "async"
    /\ ValidLimitOrder(cur.caller)
    /\ cur.caller["type"] = PyStr(S_STOP_LIMIT)
    /\ {"price_aux_limit", "flags"} \subseteq DOMAIN cur.caller
    /\ cur.caller["flags"] = PyInt(POST_ONLY_FLAG)

C10_StopLimitAsync ==
    C10_Applies =>
        /\ cur.pc = "created" => cur.calls = <<>>
        /\ cur.pc \in {"awaiting", "done"} =>
              (Len(cur.calls) = 1 /\ cur.calls[1].kwargs = cur.caller)
        /\ (cur.pc = "done" /\ Answered) =>
              (cur.outcome = "returned" /\ cur.ret = cur.calls[1].resp)

C10_Witness ==
    /\ C10_Applies /\ cur.pc = "done" /\ cur.outcome = "returned"
    /\ cur.calls[1].kwargs["price_aux_limit"] = PyInt(29500)
    /\ cur.ret \in TransportResults

\* C11: submit_limit_order(symbol, amount, price, flags=4096) builds an
\* EXCHANGE LIMIT order and ends as the direct guarded submit of that order
\* ends: the same single transport invocation and the same result
C11_Applies ==
    /\ cur.entry = "conv_sync" /\ cur.pc = "done"
    /\ IsStr(cur.args.symbol)
    /\ IsInt(cur.args.amount) /\ cur.args.amount.n # 0
    /\ IsInt(cur.args.price) /\ cur.args.price.n > 0
    /\ cur.args.order_type = PyStr(S_EXCHANGE_LIMIT)
    /\ DOMAIN cur.args.extra = {"flags"}
    /\ cur.args.extra["flags"] = PyInt(POST_ONLY_FLAG)

C11_DirectOrder ==
    [type |-> PyStr(S_EXCHANGE_LIMIT), symbol |-> cur.args.symbol, amount |-> cur.args.amount,
     price |-> cur.args.price, flags |-> PyInt(POST_ONLY_FLAG)]

C11_ConvenienceEqualsDirect ==
    C11_Applies =>
        /\ Len(cur.calls) = 1
        /\ LET direct == RestFrame("sync", NoArgs, C11_DirectOrder, cur.calls[1].resp)
           IN  /\ cur.caller = C11_DirectOrder
               /\ cur.calls = direct.calls
               /\ cur.outcome = direct.outcome
               /\ cur.exc = direct.exc
               /\ cur.ret = direct.ret

C11_Witness ==
    /\ C11_Applies /\ cur.outcome = "returned" /\ cur.ret \in TransportResults

\* C12: once construction has returned, and after any submissions, the REST
\* submission attribute is the guarded version, the WebSocket one is the
\* guarded version or absent, and each wrapper has rebound its attribute
\* exactly once
C12_GuardsStayInstalled ==
    client.state = "active" =>
        /\ rest_submit = "guarded"
        /\ wss_submit \in {"guarded", "absent"}
        /\ rebinds.rest = 1
        /\ rebinds.wss = (IF wss_submit = "guarded" THEN 1 ELSE 0)

C12_Witness ==
    /\ client.state = "active" /\ wss_submit = "guarded"
    /\ cur.entry = "async" /\ cur.pc = "done" /\ cur.outcome = "raised"

\* C13: construction over a client without rest.auth.submit_order fails
\* with ConfigurationError and leaves no guard on the WebSocket side
C13_MissingRestIsConfigurationError ==
    (rest_submit = "missing" /\ client.state # "unconstructed") =>
        /\ client.state = "failed"
        /\ client.exc = "ConfigurationError"
        /\ wss_submit # "guarded"

\* C14: without the asynchronous capability construction succeeds and the
\* synchronous path works; the asynchronous convenience submit raises and
\* invokes no transport
C14_NoAsyncCapability ==
    wss_submit = "absent" =>
        /\ client.state = "failed" =>
              (rest_submit = "missing" \/ client.exc = "ConfigurationError")
        /\ (cur.entry \in {"sync", "conv_sync"} /\ ValidLimitOrder(cur.caller)
               /\ ("flags" \in DOMAIN cur.caller => IsInt(cur.caller["flags"])))
              => Len(cur.calls) = 1
        /\ cur.entry = "conv_async" =>
              /\ cur.calls = <<>>
              /\ cur.pc # "awaiting"
              /\ cur.pc = "done" => cur.outcome = "raised"

C14_Witness ==
    /\ wss_submit = "absent" /\ client.state = "active"
    /\ cur.entry = "conv_async" /\ cur.pc = "done" /\ cur.exc = "AttributeError"
    /\ ValidLimitOrder(cur.caller)

\* C15: an order with amount zero, without price or with a price that is not
\* positive never reaches the transport through the guarded or convenience
\* submits; the call raises, with ValueError when the order type is a
\* string, None or absent
C15_BadAmountOrPrice(k) ==
    \/ "amount" \in DOMAIN k /\ IsInt(k["amount"]) /\ k["amount"].n = 0
    \/ "price" \notin DOMAIN k
    \/ IsInt(k["price"]) /\ k["price"].n <= 0

C15_ValidatorReached ==
    /\ "type" \in DOMAIN cur.caller => (IsStr(cur.caller["type"]) \/ cur.caller["type"] = None)
    /\ cur.entry = "conv_async" => wss_submit = "guarded"

C16_ZeroAmountMessage ==
    (cur.entry \in GuardedEntries /\ cur.pc = "done"
        /\ {"type", "symbol", "amount"} \subseteq DOMAIN cur.caller
        /\ LimitClassified(cur.caller["type"])
        /\ cur.caller["amount"] = PyInt(0))
    => (cur.exc = "ValueError" /\ cur.msg = "Order amount cannot be zero")

\* C17: a function decorated with post_only_enforcer whose name contains
\* 'order' is called, for a type with LIMIT and without MARKET, once with
\* bit 4096 in flags and every other keyword argument unchanged; for a market
\* or other non-limit type the call raises InvalidOrderTypeError and the
\* function is not called; the async variant resolves to the result
C17_Scope ==
    /\ cur.entry \in {"decorated", "decorated_async"}
    /\ Contains(Lower(cur.args.func), S_order)
    /\ "type" \in DOMAIN cur.caller => IsStr(cur.caller["type"])

C17_EnforcerDecorator ==
    C17_Scope =>
        IF "type" \in DOMAIN cur.caller /\ LimitClassified(cur.caller["type"])
        THEN /\ cur.pc = "created" => cur.calls = <<>>
             /\ cur.pc \in {"awaiting", "done"} =>
                   /\ Len(cur.calls) = 1
                   /\ LET k == cur.calls[1].kwargs
                      IN  /\ DOMAIN k = (DOMAIN cur.caller) \cup {"flags"}
                          /\ HasPostOnlyBit(k["flags"])
                          /\ \A f \in (DOMAIN cur.caller) \ {"flags"} : k[f] = cur.caller[f]
             /\ (cur.pc = "done" /\ Answered) =>
                   (cur.outcome = "returned" /\ cur.ret = cur.calls[1].resp)
        ELSE /\ cur.calls = <<>>
             /\ cur.pc # "awaiting"
             /\ cur.pc = "done" =>
                   (cur.outcome = "raised" /\ cur.exc = "InvalidOrderTypeError")

C17_Witness ==
    /\ C17_Scope /\ cur.entry = "decorated_async" /\ cur.outcome = "returned"
    /\ "flags" \notin DOMAIN cur.caller /\ "symbol" \in DOMAIN cur.caller
    /\ cur.ret \in TransportResults

\* C18: a PostOnlyMethodWrapper called with order keyword arguments invokes
\* the wrapped callable only with a limit-classified type and bit 4096
C18_MethodWrapperEnforces ==
    (/\ cur.entry = "method_wrapper"
     /\ "type" \in DOMAIN cur.caller /\ IsStr(cur.caller["type"])) =>
        \A i \in 1..Len(cur.calls) :
            LET k == cur.calls[i].kwargs
            IN  /\ "type" \in DOMAIN k /\ LimitClassified(k["type"])
                /\ "flags" \in DOMAIN k /\ HasPostOnlyBit(k["flags"])

\* C19: a call of the guarded sync or async submit invokes the underlying
\* capability at most once: once when the guard accepts the order, never
\* when it rejects it; an error of the capability reaches the caller as it
\* is, with no second invocation, and a result is returned as it is
C19_AtMostOnceNoRetry ==
    cur.entry \in GuardedEntries =>
        LET g == wrapped_submit_order_check(cur.caller)
        IN  /\ Len(cur.calls) <= 1
            /\ Raised(g) => cur.calls = <<>>
            /\ (~Raised(g) /\ cur.pc \in {"awaiting", "done"}) => Len(cur.calls) = 1
            /\ (cur.pc = "done" /\ cur.calls # <<>> /\ cur.calls[1].resp = TransportError) =>
                  (cur.outcome = "raised" /\ cur.exc = "TransportError")
            /\ (cur.pc = "done" /\ Answered) =>
                  (cur.outcome = "returned" /\ cur.ret = cur.calls[1].resp)
            /\ cur.outcome = "returned" => Answered

C19_Witness ==
    /\ cur.entry \in GuardedEntries /\ cur.pc = "done"
    /\ Len(cur.calls) = 1 /\ cur.calls[1].resp = TransportError
    /\ cur.outcome = "raised" /\ cur.exc = "TransportError"

\* C20: combine_flags over registered names is the bitwise OR of their
\* values: 0 for no name, the same for every order of the names and for
\* every repetition of a name, and 4096 | 64 for POST_ONLY with HIDDEN
Registered(names) == \A i \in 1..Len(names) : Upper(names[i]) \in DOMAIN get_bitfinex_flags

UpperNames(names) == {Upper(names[i]) : i \in 1..Len(names)}

RECURSIVE SumOf(_)
SumOf(S) == IF S = {} THEN 0 ELSE LET x == CHOOSE x \in S : TRUE IN x + SumOf(S \ {x})

C20_CombineIsBitwiseOr ==
    (flag_result # NotCombined /\ Registered(flag_names)) =>
        /\ flag_result.exc = "none"
        /\ flag_result.val = PyInt(SumOf({get_bitfinex_flags[u] : u \in UpperNames(flag_names)}))
        /\ flag_names = <<>> => flag_result.val = PyInt(0)
        /\ UpperNames(flag_names) = {S_POST_ONLY, S_HIDDEN} => flag_result.val = PyInt(4160)
        /\ \A other \in FlagNameTuples :
              UpperNames(other) = UpperNames(flag_names) => combine_flags(other) = flag_result

C20_Witness ==
    /\ flag_result # NotCombined
    /\ flag_names = <<S_HIDDEN, S_POST_ONLY, S_HIDDEN>>
    /\ flag_result.val = PyInt(4160)

\* the bit of weight 2^k of an integer (two's complement for negatives)
BitOf(n, k) == (n \div 2^k) % 2

FlagBits == 0..(MaxFlagBit + 1)

PostOnlyBit == 12

\* C21: add_post_only_flag returns flags | 4096 for an integer and 4096 for
\* None or no argument; its result has bit 4096, keeps every bit of flags,
\* and a second application returns the same value
C21_AddPostOnlyFlag ==
    (flag_out.op = "add" /\ (flag_arg \in {None, Absent} \/ IsInt(flag_arg))) =>
        LET f == IF IsInt(flag_arg) THEN flag_arg.n ELSE 0
            r == flag_out.first
        IN  /\ ~Raised(r) /\ IsInt(r.val)
            /\ r.val.n = IF BitOf(f, PostOnlyBit) = 1 THEN f ELSE f + POST_ONLY_FLAG
            /\ flag_arg \in {None, Absent} => r.val = PyInt(4096)
            /\ BitOf(r.val.n, PostOnlyBit) = 1
            /\ \A k \in FlagBits : BitOf(f, k) = 1 => BitOf(r.val.n, k) = 1
            /\ \A k \in FlagBits \ {PostOnlyBit} : BitOf(r.val.n, k) = BitOf(f, k)
            /\ flag_out.n = 2 => flag_out.last = r

C21_Witness ==
    /\ flag_out.op = "add" /\ flag_out.n = 2
    /\ flag_arg = PyInt(HIDDEN + REDUCE_ONLY)
    /\ flag_out.last = Ok(PyInt(HIDDEN + REDUCE_ONLY + POST_ONLY_FLAG))

\* C22: has_post_only_flag(flags) is true exactly when bit 4096 of flags is
\* set, whatever the other bits are (true for 4096 and 4096|64, false for 64
\* and 0); for None it returns false and raises nothing
C22_HasPostOnlyFlag ==
    (flag_out.op = "has" /\ (flag_arg = None \/ IsInt(flag_arg))) =>
        LET r == flag_out.first
        IN  /\ ~Raised(r)
            /\ r.val = (IsInt(flag_arg) /\ BitOf(flag_arg.n, PostOnlyBit) = 1)
            /\ flag_arg \in {PyInt(4096), PyInt(4160)} => r.val = TRUE
            /\ flag_arg \in {PyInt(64), PyInt(0), None} => r.val = FALSE

C22_Witness ==
    /\ flag_out.op = "has"
    /\ flag_arg = PyInt(POST_ONLY_FLAG + HIDDEN)
    /\ flag_out.first = Ok(TRUE)

\* C23: the registry maps HIDDEN, CLOSE, REDUCE_ONLY, POST_ONLY, OCO, NO_VWR
\* to 64, 512, 1024, 4096, 16384, 262144, each a single bit and no two the
\* same, so combine_flags of registered names has the bit of a flag exactly
\* when the flag is among the names (the POST_ONLY bit in particular)
RegistryBits == 0..18

C23_RegistryDistinctBits ==
    /\ get_bitfinex_flags[S_HIDDEN] = 64
    /\ get_bitfinex_flags[S_CLOSE] = 512
    /\ get_bitfinex_flags[S_REDUCE_ONLY] = 1024
    /\ get_bitfinex_flags[S_POST_ONLY] = 4096
    /\ get_bitfinex_flags[S_OCO] = 16384
    /\ get_bitfinex_flags[S_NO_VWR] = 262144
    /\ Cardinality(DOMAIN get_bitfinex_flags) = 6
    /\ \A u \in DOMAIN get_bitfinex_flags : \E k \in RegistryBits : get_bitfinex_flags[u] = 2^k
    /\ \A u, w \in DOMAIN get_bitfinex_flags :
          get_bitfinex_flags[u] = get_bitfinex_flags[w] => u = w
    /\ (flag_result # NotCombined /\ Registered(flag_names)) =>
          /\ ~Raised(flag_result)
          /\ BitOf(flag_result.val.n, PostOnlyBit) = 1 <=> S_POST_ONLY \in UpperNames(flag_names)
          /\ \A u \in DOMAIN get_bitfinex_flags : \A k \in RegistryBits :
                get_bitfinex_flags[u] = 2^k =>
                   (BitOf(flag_result.val.n, k) = 1 <=> u \in UpperNames(flag_names))

C23_Witness ==
    /\ flag_result # NotCombined
    /\ flag_names = <<S_HIDDEN, S_CLOSE, S_REDUCE_ONLY, S_OCO, S_NO_VWR>>
    /\ flag_result = Ok(PyInt(280128))

\* C24: combine_flags looks names up without regard to case, and with a
\* name that is not registered it raises the unknown-flag error and returns
\* nothing, wherever the name stands among registered ones
C24_UnknownFlagFails ==
    flag_result # NotCombined =>
        /\ ~Registered(flag_names) =>
              flag_result = Raise("ValueError", "Unknown flag")
        /\ (\A i \in 1..Len(flag_names) : flag_names[i] \in {S_post_only, S_POST_ONLY}) =>
              flag_result = Ok(PyInt(IF flag_names = <<>> THEN 0 ELSE 4096))
        /\ Raised(flag_result) => ~Registered(flag_names)

C24_Witness ==
    /\ flag_names = <<S_POST_ONLY, S_INVALID_FLAG, S_HIDDEN>>
    /\ flag_result.exc = "ValueError"

\* C25: no submit through the client's guards ends with
\* PostOnlyViolationError: an order with type, symbol and amount whose type
\* is not classified as limit is rejected with ValueError by the validation,
\* before the branch that raises PostOnlyViolationError can be taken
C25_FailsClassification(k) ==
    /\ {"type", "symbol", "amount"} \subseteq DOMAIN k
    /\ (IsStr(k["type"]) \/ k["type"] = None)
    /\ ~LimitClassified(k["type"])

PayloadWithPostOnly(k) ==
    LET f == IF "flags" \in DOMAIN k THEN k["flags"].n ELSE 0
    IN  [g \in (DOMAIN k) \cup {"flags"} |->
            IF g = "flags"
            THEN PyInt(IF (f \div POST_ONLY_FLAG) % 2 = 1 THEN f ELSE f + POST_ONLY_FLAG)
            ELSE k[g]]

\* C26: with several guarded async submits in flight on one wrapper, in any
\* interleaving, every payload the transport receives is its caller's payload
\* with bit 4096 OR-ed into flags, an accepted call has made exactly one
\* invocation, with that payload, a rejected call none, and the outcome of a
\* call does not depend on the other calls
C26_Received(i) == {n \in 1..Len(wire) : wire[n].task = i}

C26_ConcurrentSubmitsIsolated ==
    tasks # <<>> =>
        /\ \A n \in 1..Len(wire) :
              /\ wire[n].kwargs = PayloadWithPostOnly(tasks[wire[n].task].caller)
              /\ LimitClassified(wire[n].kwargs["type"])
              /\ HasPostOnlyBit(wire[n].kwargs["flags"])
        /\ \A i \in Tasks :
              LET t == tasks[i]
              IN  /\ t.pc \in {"idle", "created"} => C26_Received(i) = {}
                  /\ (t.pc \in {"awaiting", "done"} /\ LimitClassified(t.caller["type"])) =>
                        /\ Cardinality(C26_Received(i)) = 1
                        /\ Len(t.calls) = 1
                        /\ t.calls[1].kwargs = PayloadWithPostOnly(t.caller)
                  /\ (t.pc \in {"awaiting", "done"} /\ ~LimitClassified(t.caller["type"])) =>
                        /\ C26_Received(i) = {}
                        /\ t.pc = "done" /\ t.outcome = "raised" /\ t.calls = <<>>
                  /\ (t.pc = "done" /\ t.outcome = "returned") => t.ret = t.calls[1].resp

C26_Witness ==
    /\ tasks # <<>>
    /\ Len(wire) = 2 /\ wire[1].task = 2 /\ wire[2].task = 1
    /\ tasks[1].pc = "awaiting" /\ tasks[2].pc = "awaiting"
    /\ tasks[1].caller # tasks[2].caller

\* C27: for an order with a string type, a symbol, a non-zero numeric
\* amount, a positive numeric price and integer or absent flags, the guard of
\* the client and the guard of the decorators decide alike, and when they
\* accept they forward the same mapping: the caller's, with flags OR 4096
C27_WellFormed(k) ==
    /\ {"type", "symbol", "amount", "price"} \subseteq DOMAIN k
    /\ IsStr(k["type"])
    /\ IsInt(k["amount"]) /\ k["amount"].n # 0
    /\ IsInt(k["price"]) /\ k["price"].n > 0
    /\ "flags" \in DOMAIN k => IsInt(k["flags"])

C27_SameAs(other) ==
    /\ (cur.outcome = "raised" /\ cur.calls = <<>>) <=> Raised(other)
    /\ cur.calls # <<>> =>
          /\ ~Raised(other)
          /\ cur.calls[1].kwargs = other.val
          /\ cur.calls[1].kwargs = PayloadWithPostOnly(cur.caller)

C28_Entries == {"rewrapped_sync", "rewrapped_async"}

C28_GuardsNest ==
    /\ (rebinds.rest >= 1 => rest_submit = "guarded")
    /\ (rebinds.wss >= 1 => wss_submit = "guarded")
    /\ cur.entry \in C28_Entries =>
          LET single == wrapped_submit_order_check(cur.caller)
          IN  /\ cur.args.guards >= 1
              /\ Raised(single) =>
                    /\ cur.calls = <<>>
                    /\ cur.pc # "awaiting"
                    /\ cur.pc = "done" => (cur.outcome = "raised" /\ cur.exc = single.exc)
              /\ (~Raised(single) /\ cur.pc \in {"awaiting", "done"}) =>
                    /\ Len(cur.calls) = 1
                    /\ cur.calls[1].kwargs = single.val
              /\ (cur.pc = "done" /\ Answered) =>
                    (cur.outcome = "returned" /\ cur.ret = cur.calls[1].resp)

C28_Witness ==
    /\ cur.entry = "rewrapped_async" /\ cur.pc = "done" /\ cur.outcome = "returned"
    /\ cur.args.guards = 2 /\ rebinds.wss = 2
    /\ "flags" \in DOMAIN cur.caller /\ cur.caller["flags"] = PyInt(HIDDEN)
    /\ cur.calls[1].kwargs["flags"] = PyInt(HIDDEN + POST_ONLY_FLAG)

\* C29: post_only_enforcer checks a call only when the name of the
\* decorated function contains 'order' in any case (or 'submit_order'); under
\* any other name every call, a market order or an unflagged limit order
\* included, reaches the function once with the caller's arguments
C29_Entries == {"decorated", "decorated_async"}

C30_Scope ==
    /\ cur.entry \in {"decorated", "decorated_async"}
    /\ cur.args.func \in {S_cancel_order, S_update_order}
    /\ "type" \in DOMAIN cur.caller => IsStr(cur.caller["type"])

C30_CancelAndUpdateGuarded ==
    C30_Scope =>
        /\ C5_NotLimit(cur.caller) =>
              /\ cur.calls = <<>>
              /\ cur.pc # "awaiting"
              /\ cur.pc = "done" =>
                    (cur.outcome = "raised" /\ cur.exc = "InvalidOrderTypeError")
        /\ cur.calls # <<>> =>
              LET k == cur.calls[1].kwargs
              IN  /\ Len(cur.calls) = 1
                  /\ LimitClassified(cur.caller["type"])
                  /\ DOMAIN k = (DOMAIN cur.caller) \cup {"flags"}
                  /\ HasPostOnlyBit(k["flags"])
                  /\ \A f \in (DOMAIN cur.caller) \ {"flags"} : k[f] = cur.caller[f]
                  /\ ("flags" \in DOMAIN cur.caller /\ IsInt(cur.caller["flags"])) =>
                        k = PayloadWithPostOnly(cur.caller)

C30_Witness ==
    /\ cur.entry = "decorated" /\ cur.args.func = S_cancel_order
    /\ DOMAIN cur.caller = {"id"}
    /\ cur.pc = "done" /\ cur.exc = "InvalidOrderTypeError" /\ cur.calls = <<>>

====
